---- MODULE Spec2Model ----
(***************************************************************************)
(* The Python SDK of Cortex: the in-memory MockCortex                      *)
(* (sdks/python/cortex_memory/testing.py) and the gRPC client Cortex       *)
(* (sdks/python/cortex_memory/client.py, models.py).                       *)
(*                                                                         *)
(* Text (titles, bodies, queries) is a sequence of characters, so that     *)
(* str.lower() and the substring test `q in s` are computed.  A uuid       *)
(* string is a one-element sequence <<i>>; the empty string is << >>.      *)
(* An Optional argument is << >> for None and <<v>> for a given value v.   *)
(* Floats are counted in tenths (0.5 is 5, 0.9 is 9).                      *)
(***************************************************************************)
EXTENDS Integers, Sequences, FiniteSets, TLC

VARIABLES
  sdk,        \* the class of the object the program constructed
  _nodes,     \* MockCortex._nodes: an insertion-ordered dict, as the sequence of its values
  _call_log,  \* MockCortex._call_log
  srv_nodes,  \* the node records of the server a Cortex client talks to
  srv_edges,  \* the edge records of that server
  stores,     \* the store calls of the writer threads: where each one is
  searching,  \* the search call of the reader thread: where it is
  _channel,   \* Cortex._channel: "" before there is a client, "open", "closed"
  _proc,      \* Cortex._proc: None, or the subprocess open() started
  subprocess, \* the server process of Cortex.open, as the system sees it
  pc,         \* the program that makes and closes a client: where it is
  objs,       \* the MockCortex objects of a program that makes several
  heap,       \* the dicts and lists those objects refer to
  calls,      \* the number of store calls made on each of those objects
  history,    \* the store calls that returned an id: the id and the arguments
  last        \* the last call: its name, arguments, outcome

vars == <<sdk, _nodes, _call_log, srv_nodes, srv_edges, stores, searching,
          _channel, _proc, subprocess, pc, objs, heap, calls, history, last>>

\* What the calls on one object's nodes leave alone.
aux == <<srv_edges, stores, searching>>

\* What the calls on nodes and graphs leave alone.
rest == <<_channel, _proc, subprocess, pc, objs, heap, calls>>

-----------------------------------------------------------------------------
(* Bounds of the model *)

\* The number of store calls made on one object.
MaxStores == 2

\* The number of close() calls a program makes outside a with-block.
MaxCloses == 2

\* The number of MockCortex objects a program makes.
MaxInstances == 2

\* The number of nodes of the graph a traversal walks.
MaxGraphNodes == 3

-----------------------------------------------------------------------------
(* Program constants *)

\* search(..., limit: int = 10)
DefaultLimit == 10

\* _MockSearchResult(0.9, ...), in tenths
MockScore == 9

\* for _ in range(20), the readiness probes of Cortex.open
ProbeCount == 20

\* store(..., importance: float = 0.5), in tenths
DefaultImportance == 5

\* traverse(..., depth: int = 2)
DefaultDepth == 2

-----------------------------------------------------------------------------
(* Input alphabets *)

None == << >>

Some(v) == <<v>>

Kinds == {"", "fact"}

Titles == {<< >>, <<"a">>, <<"A", "b">>}

\* The keyword arguments of store: all omitted (the defaults of the
\* signature), or all given.
Keywords ==
  { [body |-> << >>, tags |-> None, importance |-> DefaultImportance,
     metadata |-> None, source_agent |-> ""],
    [body |-> <<"b">>, tags |-> Some(<<"t">>), importance |-> 8,
     metadata |-> Some({<<"k", "v">>}), source_agent |-> "kai"] }

Queries == Titles \cup {<<"b">>}

Limits == {-1, 0, 1, DefaultLimit}

\* anchor_ids of search_hybrid: omitted, empty, one id
Anchors == {None, Some(<< >>), Some(<< <<1>> >>)}

Agents == {"kai", "my-agent"}

\* The values of str(uuid.uuid4()) the model draws from.
UUIDs == {<<i>> : i \in 1..(MaxStores + 1)}

\* The ids a caller may ask for: the empty string too.
NodeIds == UUIDs \cup {<< >>}

\* The ids of the nodes of a graph.
GraphIds == {<<i>> : i \in 1..MaxGraphNodes}

\* depth of traverse
Depths == 0..DefaultDepth

\* direction of traverse
Directions == {"outgoing", "incoming", "both"}

\* The writer threads; each makes one store call.
Writers == 1..MaxStores

\* A call that has not begun.
NotCalled == [pc |-> "ready"]

\* The ports the system may hand out.
Ports == {"49152", "49153"}

\* No process.
NoProcess == [started |-> FALSE, running |-> FALSE, port |-> "",
              terminate_calls |-> 0]

\* A program that has not made a client yet.
NotStarted == [at |-> "start", how |-> "", port |-> "", listener |-> "none",
               probes |-> 0, observed |-> "none", closes |-> 0,
               block |-> "outside"]

\* grpc.StatusCode values of a failed call
NOT_FOUND == "NOT_FOUND"

INVALID_ARGUMENT == "INVALID_ARGUMENT"

UNAVAILABLE == "UNAVAILABLE"

-----------------------------------------------------------------------------
(* Python built-ins *)

\* str.lower() of one character
lowerChar(c) == IF c = "A" THEN "a" ELSE IF c = "B" THEN "b" ELSE c

\* A lower() that leaves the text as it is.
lower_keep(s) == s

\* str.lower()
lower(s) == [i \in 1..Len(s) |-> lowerChar(s[i])]

\* q in s, for strings
Contains(q, s) ==
  \E i \in 0..(Len(s) - Len(q)) : SubSeq(s, i + 1, i + Len(q)) = q

\* xs[:limit]
SliceTo(xs, limit) ==
  IF limit >= 0
    THEN SubSeq(xs, 1, IF limit < Len(xs) THEN limit ELSE Len(xs))
    ELSE SubSeq(xs, 1, IF Len(xs) + limit > 0 THEN Len(xs) + limit ELSE 0)

\* x or default, for a string or list x
OrElse(x, default) == IF x /= << >> THEN x ELSE default

\* opt or default, for an Optional list or dict: None and the empty value are falsy
OptOrElse(opt, empty, default) ==
  IF opt /= None /\ opt[1] /= empty THEN opt[1] ELSE default

\* The position of key in an insertion-ordered dict (a sequence of values
\* carrying their key in .id), 0 when absent.
DictIndex(d, key) ==
  IF \E i \in 1..Len(d) : d[i].id = key
    THEN CHOOSE i \in 1..Len(d) : d[i].id = key
    ELSE 0

\* d[key] = value: a new key goes last, an existing key keeps its place.
DictSet(d, key, value) ==
  IF DictIndex(d, key) = 0 THEN Append(d, value)
  ELSE [d EXCEPT ![DictIndex(d, key)] = value]

\* d.get(key): None when absent
DictGet(d, key) ==
  IF DictIndex(d, key) = 0 THEN None ELSE Some(d[DictIndex(d, key)])

\* An id generator that repeats itself.
uuid4_reuse(issued) == <<1>>

\* str(uuid.uuid4()): a value that was not returned before.  The values are
\* opaque, so the model takes them in one fixed order.
uuid4(issued) ==
  CHOOSE u \in UUIDs \ issued : \A v \in UUIDs \ issued : u[1] <= v[1]

-----------------------------------------------------------------------------
(* MockCortex *)

\* A constructor that hands every object the dict and the list of the first.
MockCortex_init_shared(h) ==
  IF h = << >>
    THEN [heap |-> <<<< >>, << >>>>, self |-> [_nodes |-> 1, _call_log |-> 2]]
    ELSE [heap |-> h, self |-> [_nodes |-> 1, _call_log |-> 2]]

\* MockCortex.__init__: a new dict and a new list, and the object that holds
\* them in _nodes and _call_log.
MockCortex_init(h) ==
  [heap |-> h \o <<<< >>, << >>>>,
   self |-> [_nodes |-> Len(h) + 1, _call_log |-> Len(h) + 2]]

\* _MockNode(data): every key of the dict becomes an attribute.
_MockNode(data) == data

_MockSearchResult(score, node) ==
  [score |-> score, node_id |-> node.id, title |-> node.title,
   kind |-> node.kind, body |-> node.body, importance |-> node.importance]

\* The dict store() writes for a node.
MockNodeData(node_id, kind, title, kw) ==
  [id |-> node_id, kind |-> kind, title |-> title,
   body |-> OrElse(kw.body, title),
   tags |-> OptOrElse(kw.tags, << >>, << >>),
   importance |-> kw.importance,
   metadata |-> OptOrElse(kw.metadata, {}, {}),
   source_agent |-> kw.source_agent]

\* A filter that looks at the body only.
MatchesBodyOnly(n, q) == Contains(q, lower(n.body))

\* The filter of search(): q in title.lower() or q in body.lower()
Matches(n, q) == Contains(q, lower(n.title)) \/ Contains(q, lower(n.body))

\* The comprehension, walking the dict from its newest entry.
RECURSIVE matches_reversed(_, _)
matches_reversed(nodes, q) ==
  IF nodes = << >> THEN << >>
  ELSE matches_reversed(Tail(nodes), q)
       \o (IF Matches(Head(nodes), q)
             THEN <<_MockSearchResult(MockScore, _MockNode(Head(nodes)))>>
             ELSE << >>)

\* The list comprehension of search(): one result per matching node, in the
\* iteration order of self._nodes.values().
RECURSIVE matches(_, _)
matches(nodes, q) ==
  IF nodes = << >> THEN << >>
  ELSE (IF Matches(Head(nodes), q)
          THEN <<_MockSearchResult(MockScore, _MockNode(Head(nodes)))>>
          ELSE << >>)
       \o matches(Tail(nodes), q)

\* MockCortex.search
search(nodes, query, limit) == SliceTo(matches(nodes, lower(query)), limit)

\* A search_hybrid that forgets to pass its limit on.
search_hybrid_default_limit(nodes, query, anchor_ids, limit) ==
  search(nodes, query, DefaultLimit)

\* MockCortex.search_hybrid
search_hybrid(nodes, query, anchor_ids, limit) == search(nodes, query, limit)

\* A briefing that renders nothing.
briefing_blank(agent_id, compact) == ""

\* MockCortex.briefing: the str it returns
briefing(agent_id, compact) == "[Mock briefing for " \o agent_id \o "]"

\* MockCortex.briefing_full: the attributes of _MockBriefing
briefing_full(nodes, agent_id, compact) ==
  [text |-> "[Mock briefing for " \o agent_id \o "]",
   nodes_consulted |-> Len(nodes),
   cached |-> FALSE,
   generated_at |-> ""]

\* A get_node that wraps whatever the dict lookup gave.
get_node_unchecked(nodes, node_id) ==
  IF DictGet(nodes, node_id) = None
    THEN [result |-> None, raised |-> "TypeError"]
    ELSE [result |-> Some(_MockNode(DictGet(nodes, node_id)[1])), raised |-> ""]

\* MockCortex.get_node: the value returned and the exception raised
get_node(nodes, node_id) ==
  LET data == DictGet(nodes, node_id)
  IN  [result |-> IF data /= None THEN Some(_MockNode(data[1])) ELSE None,
       raised |-> ""]

\* MockCortex.traverse
traverse(node_id, depth, direction) == [nodes |-> << >>, edges |-> << >>]

\* Some entry of the call log is ("store", kind, title).
InCallLog(call_log, kind, title) ==
  \E i \in 1..Len(call_log) :
    call_log[i][1] = "store" /\ call_log[i][2] = kind /\ call_log[i][3] = title

\* An assert_stored that looks at the title only.
assert_stored_any_kind(call_log, kind, title) ==
  IF \E i \in 1..Len(call_log) :
       call_log[i][1] = "store" /\ call_log[i][3] = title
    THEN "" ELSE "AssertionError"

\* MockCortex.assert_stored: the exception raised, "" when it returns
assert_stored(call_log, kind, title) ==
  IF InCallLog(call_log, kind, title) THEN "" ELSE "AssertionError"

\* MockCortex.assert_not_stored: the exception raised, "" when it returns
assert_not_stored(call_log, kind, title) ==
  IF InCallLog(call_log, kind, title) THEN "AssertionError" ELSE ""

-----------------------------------------------------------------------------
(* Cortex, the gRPC client, and the server it calls *)

\* cortex_pb2.CreateNodeRequest as Cortex.store fills it; a map field that was
\* not written is empty.
CreateNodeRequest(kind, title, kw) ==
  [kind |-> kind, title |-> title,
   body |-> OrElse(kw.body, title),
   importance |-> kw.importance,
   tags |-> OptOrElse(kw.tags, << >>, << >>),
   source_agent |-> kw.source_agent,
   metadata |-> OptOrElse(kw.metadata, {}, {})]

\* The server's CreateNode (spec 4.1): an empty kind or title is rejected
\* before any mutation; otherwise the record is stored under a fresh id.
srvCreateNode(nodes, req, node_id) ==
  IF req.kind = "" \/ req.title = << >>
    THEN [status |-> INVALID_ARGUMENT, resp |-> None, nodes |-> nodes]
    ELSE [status |-> "OK", resp |-> Some([id |-> node_id]),
          nodes |-> Append(nodes,
                      [id |-> node_id, kind |-> req.kind, title |-> req.title,
                       body |-> req.body, importance |-> req.importance,
                       tags |-> req.tags, source_agent |-> req.source_agent,
                       metadata |-> req.metadata])]

\* The server's GetNode (spec 4.1): the record, or NotFound.
srvGetNode(nodes, node_id) ==
  IF DictGet(nodes, node_id) = None
    THEN [status |-> NOT_FOUND, resp |-> None]
    ELSE [status |-> "OK", resp |-> DictGet(nodes, node_id)]

\* The elements of a set of ids as a list, in the order of the ids.
RECURSIVE IdList(_)
IdList(ids) ==
  IF ids = {} THEN << >>
  ELSE LET u == CHOOSE x \in ids : \A y \in ids : x[1] <= y[1]
       IN  <<u>> \o IdList(ids \ {u})

\* The breadth-first walk of the traversal engine (spec 4.3): from the
\* frontier, the edges of the wanted direction that lead to a node not seen
\* yet; their far ends are the next frontier; max_depth levels at most.
RECURSIVE bfs(_, _, _, _, _, _)
bfs(edges, direction, frontier, visited, used, depth_left) ==
  IF depth_left <= 0 \/ frontier = {}
    THEN [nodes |-> visited, edges |-> used]
    ELSE LET seen == {visited[i] : i \in 1..Len(visited)}
             out == IF direction \in {"outgoing", "both"}
                      THEN {e \in edges : e.from_id \in frontier
                                           /\ e.to_id \notin seen}
                      ELSE {}
             inc == IF direction \in {"incoming", "both"}
                      THEN {e \in edges : e.to_id \in frontier
                                           /\ e.from_id \notin seen}
                      ELSE {}
             new == {e.to_id : e \in out} \cup {e.from_id : e \in inc}
         IN  bfs(edges, direction, new, visited \o IdList(new),
                 used \cup out \cup inc, depth_left - 1)

\* The server's Traverse (spec 4.1, 4.3): NotFound for a start id it does not
\* hold; otherwise the nodes visited, each once, and the edges walked.
srvTraverse(nodes, edges, req) ==
  LET starts == {req.start_ids[i] : i \in 1..Len(req.start_ids)}
  IN  IF \E id \in starts : DictGet(nodes, id) = None
        THEN [status |-> NOT_FOUND, resp |-> None]
        ELSE LET walk == bfs(edges, req.direction, starts, IdList(starts),
                             {}, req.max_depth)
             IN  [status |-> "OK",
                  resp |-> Some([nodes |-> [i \in 1..Len(walk.nodes) |->
                                             DictGet(nodes, walk.nodes[i])[1]],
                                 edges |-> walk.edges])]

\* A request that asks for one level more.
TraverseRequest_deeper(node_id, depth, direction) ==
  [start_ids |-> <<node_id>>, max_depth |-> depth + 1, direction |-> direction]

\* cortex_pb2.TraverseRequest as Cortex.traverse fills it
TraverseRequest(node_id, depth, direction) ==
  [start_ids |-> <<node_id>>, max_depth |-> depth, direction |-> direction]

\* Cortex.traverse after the RPC: the nodes and edges of the response as
\* lists, or the RpcError goes to the caller.
Cortex_traverse(rpc) ==
  IF rpc.status = "OK"
    THEN [result |-> [nodes |-> rpc.resp[1].nodes, edges |-> rpc.resp[1].edges],
          raised |-> ""]
    ELSE [result |-> [nodes |-> << >>, edges |-> {}], raised |-> rpc.status]

\* A close() that keeps the subprocess in _proc.
Cortex_close_keep_proc(proc, sub) ==
  [_channel |-> "closed",
   _proc |-> proc,
   subprocess |-> IF proc /= None
                    THEN [sub EXCEPT !.running = FALSE,
                                     !.terminate_calls = @ + 1]
                    ELSE sub]

\* Cortex.close: self._channel.close(); the subprocess of _proc, if there is
\* one, gets terminate() and _proc becomes None.
Cortex_close(proc, sub) ==
  [_channel |-> "closed",
   _proc |-> None,
   subprocess |-> IF proc /= None
                    THEN [sub EXCEPT !.running = FALSE,
                                     !.terminate_calls = @ + 1]
                    ELSE sub]

\* models.Node.__init__: the attributes it copies from the response
Node(proto) ==
  [id |-> proto.id, kind |-> proto.kind, title |-> proto.title,
   body |-> proto.body, importance |-> proto.importance,
   tags |-> proto.tags, source_agent |-> proto.source_agent]

\* Cortex.store after the RPC: resp.id, or the RpcError goes to the caller.
Cortex_store(rpc) ==
  IF rpc.status = "OK"
    THEN [result |-> Some(rpc.resp[1].id), raised |-> ""]
    ELSE [result |-> None, raised |-> rpc.status]

\* Cortex.get_node after the RPC: Node(resp); None for NOT_FOUND; any other
\* RpcError is raised again.
Cortex_get_node(rpc) ==
  IF rpc.status = "OK" THEN [result |-> Some(Node(rpc.resp[1])), raised |-> ""]
  ELSE IF rpc.status = NOT_FOUND THEN [result |-> None, raised |-> ""]
  ELSE [result |-> None, raised |-> rpc.status]

\* What a call left behind: rpc is the status of the RPC a Cortex client made
\* ("" for MockCortex), raised the exception the caller saw ("" for none).
Outcome(op, args, result, rpc, raised) ==
  [op |-> op, args |-> args, result |-> result, rpc |-> rpc, raised |-> raised]

Issued == {history[i].id : i \in 1..Len(history)}

\* MockCortex.__init__, or Cortex.__init__ for a server that holds no node yet
Init ==
  /\ sdk \in {"MockCortex", "Cortex"}
  /\ _nodes = << >>
  /\ _call_log = << >>
  /\ srv_nodes = << >>
  /\ srv_edges = {}
  /\ stores = [w \in Writers |-> NotCalled]
  /\ searching = NotCalled
  /\ _channel = ""
  /\ _proc = None
  /\ subprocess = NoProcess
  /\ pc = NotStarted
  /\ objs = << >>
  /\ heap = << >>
  /\ calls = << >>
  /\ history = << >>
  /\ last = Outcome("__init__", << >>, None, "", "")

\* MockCortex.store
MockStore ==
  /\ sdk = "MockCortex"
  /\ Len(_call_log) < MaxStores
  /\ \E kind \in Kinds, title \in Titles, kw \in Keywords :
       LET node_id == uuid4(Issued)
           args == [kind |-> kind, title |-> title, kw |-> kw]
       IN  /\ _nodes' = DictSet(_nodes, node_id,
                                MockNodeData(node_id, kind, title, kw))
           /\ _call_log' = Append(_call_log, <<"store", kind, title>>)
           /\ history' = Append(history, [id |-> node_id, args |-> args])
           /\ last' = Outcome("store", args, Some(node_id), "", "")
  /\ UNCHANGED <<sdk, srv_nodes>>
  /\ UNCHANGED aux
  /\ UNCHANGED rest

\* MockCortex.search
MockSearch ==
  /\ sdk = "MockCortex"
  /\ \E query \in Queries, limit \in Limits :
       last' = Outcome("search", [query |-> query, limit |-> limit],
                       search(_nodes, query, limit), "", "")
  /\ UNCHANGED <<sdk, _nodes, _call_log, srv_nodes, history>>
  /\ UNCHANGED aux
  /\ UNCHANGED rest

\* MockCortex.search_hybrid
MockSearchHybrid ==
  /\ sdk = "MockCortex"
  /\ \E query \in Queries, anchor_ids \in Anchors, limit \in Limits :
       last' = Outcome("search_hybrid",
                       [query |-> query, anchor_ids |-> anchor_ids,
                        limit |-> limit],
                       search_hybrid(_nodes, query, anchor_ids, limit), "", "")
  /\ UNCHANGED <<sdk, _nodes, _call_log, srv_nodes, history>>
  /\ UNCHANGED aux
  /\ UNCHANGED rest

\* MockCortex.briefing
MockBriefing ==
  /\ sdk = "MockCortex"
  /\ \E agent_id \in Agents, compact \in BOOLEAN :
       last' = Outcome("briefing", [agent_id |-> agent_id, compact |-> compact],
                       [text |-> briefing(agent_id, compact)], "", "")
  /\ UNCHANGED <<sdk, _nodes, _call_log, srv_nodes, history>>
  /\ UNCHANGED aux
  /\ UNCHANGED rest

\* MockCortex.briefing_full
MockBriefingFull ==
  /\ sdk = "MockCortex"
  /\ \E agent_id \in Agents, compact \in BOOLEAN :
       last' = Outcome("briefing_full",
                       [agent_id |-> agent_id, compact |-> compact],
                       briefing_full(_nodes, agent_id, compact), "", "")
  /\ UNCHANGED <<sdk, _nodes, _call_log, srv_nodes, history>>
  /\ UNCHANGED aux
  /\ UNCHANGED rest

\* MockCortex.get_node
MockGetNode ==
  /\ sdk = "MockCortex"
  /\ \E node_id \in NodeIds :
       LET r == get_node(_nodes, node_id)
       IN  last' = Outcome("get_node", [node_id |-> node_id],
                           r.result, "", r.raised)
  /\ UNCHANGED <<sdk, _nodes, _call_log, srv_nodes, history>>
  /\ UNCHANGED aux
  /\ UNCHANGED rest

\* MockCortex.assert_stored
MockAssertStored ==
  /\ sdk = "MockCortex"
  /\ \E kind \in Kinds, title \in Titles :
       last' = Outcome("assert_stored", [kind |-> kind, title |-> title],
                       None, "", assert_stored(_call_log, kind, title))
  /\ UNCHANGED <<sdk, _nodes, _call_log, srv_nodes, history>>
  /\ UNCHANGED aux
  /\ UNCHANGED rest

\* MockCortex.assert_not_stored
MockAssertNotStored ==
  /\ sdk = "MockCortex"
  /\ \E kind \in Kinds, title \in Titles :
       last' = Outcome("assert_not_stored", [kind |-> kind, title |-> title],
                       None, "", assert_not_stored(_call_log, kind, title))
  /\ UNCHANGED <<sdk, _nodes, _call_log, srv_nodes, history>>
  /\ UNCHANGED aux
  /\ UNCHANGED rest

\* Cortex.store: the request, the RPC (answered by the server, or failing in
\* transport), the return
CortexStore ==
  /\ sdk = "Cortex"
  /\ Len(srv_nodes) < MaxStores
  /\ \E kind \in Kinds, title \in Titles, kw \in Keywords :
       LET args == [kind |-> kind, title |-> title, kw |-> kw]
           req == CreateNodeRequest(kind, title, kw)
           answer == srvCreateNode(srv_nodes, req, uuid4(Issued))
       IN  \E rpc \in {answer,
                       [status |-> UNAVAILABLE, resp |-> None,
                        nodes |-> srv_nodes]} :
             LET r == Cortex_store(rpc)
             IN  /\ srv_nodes' = rpc.nodes
                 /\ history' = IF rpc.status = "OK"
                                 THEN Append(history,
                                        [id |-> r.result[1], args |-> args])
                                 ELSE history
                 /\ last' = Outcome("store", args, r.result, rpc.status,
                                    r.raised)
  /\ UNCHANGED <<sdk, _nodes, _call_log>>
  /\ UNCHANGED aux
  /\ UNCHANGED rest

\* Cortex.get_node
CortexGetNode ==
  /\ sdk = "Cortex"
  /\ \E node_id \in NodeIds :
     \E rpc \in {srvGetNode(srv_nodes, node_id),
                 [status |-> UNAVAILABLE, resp |-> None]} :
       LET r == Cortex_get_node(rpc)
       IN  last' = Outcome("get_node", [node_id |-> node_id], r.result,
                           rpc.status, r.raised)
  /\ UNCHANGED <<sdk, _nodes, _call_log, srv_nodes, history>>
  /\ UNCHANGED aux
  /\ UNCHANGED rest

-----------------------------------------------------------------------------
Next ==
  \/ MockStore
  \/ MockSearch
  \/ MockSearchHybrid
  \/ MockBriefing
  \/ MockBriefingFull
  \/ MockGetNode
  \/ MockAssertStored
  \/ MockAssertNotStored
  \/ CortexStore
  \/ CortexGetNode

Spec == Init /\ [][Next]_vars

-----------------------------------------------------------------------------
(* Traversal: a client of either class, and a server that holds a graph *)

\* The node records of a server that holds the nodes of the graph.
GraphNodes ==
  [i \in 1..MaxGraphNodes |->
     [id |-> <<i>>, kind |-> "fact", title |-> <<"a">>, body |-> <<"a">>,
      importance |-> DefaultImportance, tags |-> << >>, source_agent |-> "",
      metadata |-> {}]]

\* The directed edges a graph may have.
GraphEdges ==
  {[from_id |-> a, to_id |-> b] : a, b \in GraphIds} \
    {[from_id |-> a, to_id |-> a] : a \in GraphIds}

\* The graphs that have no more edges than nodes; a cycle through every node
\* is one of them.
Graphs == {E \in SUBSET GraphEdges : Cardinality(E) <= MaxGraphNodes}

\* A MockCortex, or a Cortex client of a server that holds some graph.
InitTraverse ==
  /\ \/ sdk = "MockCortex" /\ srv_nodes = << >> /\ srv_edges = {}
     \/ sdk = "Cortex" /\ srv_nodes = GraphNodes
                       /\ srv_edges \in Graphs
  /\ _nodes = << >>
  /\ _call_log = << >>
  /\ stores = [w \in Writers |-> NotCalled]
  /\ searching = NotCalled
  /\ _channel = ""
  /\ _proc = None
  /\ subprocess = NoProcess
  /\ pc = NotStarted
  /\ objs = << >>
  /\ heap = << >>
  /\ calls = << >>
  /\ history = << >>
  /\ last = Outcome("__init__", << >>, None, "", "")

\* MockCortex.traverse
MockTraverse ==
  /\ sdk = "MockCortex"
  /\ \E node_id \in GraphIds \cup {<< >>}, depth \in Depths,
        direction \in Directions :
       last' = Outcome("traverse",
                       [node_id |-> node_id, depth |-> depth,
                        direction |-> direction],
                       traverse(node_id, depth, direction), "", "")
  /\ UNCHANGED <<sdk, _nodes, _call_log, srv_nodes, srv_edges, history>>
  /\ UNCHANGED <<stores, searching>>
  /\ UNCHANGED rest

\* Cortex.traverse, with a server that answers
CortexTraverse ==
  /\ sdk = "Cortex"
  /\ \E node_id \in GraphIds \cup {<< >>}, depth \in Depths,
        direction \in Directions :
       LET rpc == srvTraverse(srv_nodes, srv_edges,
                              TraverseRequest(node_id, depth, direction))
           r == Cortex_traverse(rpc)
       IN  last' = Outcome("traverse",
                           [node_id |-> node_id, depth |-> depth,
                            direction |-> direction],
                           r.result, rpc.status, r.raised)
  /\ UNCHANGED <<sdk, _nodes, _call_log, srv_nodes, srv_edges, history>>
  /\ UNCHANGED <<stores, searching>>
  /\ UNCHANGED rest

NextTraverse ==
  \/ MockTraverse
  \/ CortexTraverse

SpecTraverse == InitTraverse /\ [][NextTraverse]_vars

-----------------------------------------------------------------------------
(* Threads: one MockCortex, store calls and a search call interleaved.  A
   thread switch can fall between any two bytecodes; a dict insert, a list
   append and one step of a dict iterator are each one step. *)

\* The titles the writer threads store.
ThreadTitles == {<<"a">>, <<"A", "b">>}

\* The queries the reader thread searches for.
ThreadQueries == {<<"a">>, <<"b">>}

\* The ids of the nodes whose store call has returned.
StoredIds ==
  {stores[w].node_id : w \in {v \in Writers : stores[v].pc = "returned"}}

InitThreads ==
  /\ sdk = "MockCortex"
  /\ Init

\* store(), lines 101-111: the id, the node data, and its insertion into
\* self._nodes.  The data is built before the dict is touched.
StoreInsert(w) ==
  /\ stores[w].pc = "ready"
  /\ \E title \in ThreadTitles :
       LET node_id == uuid4({_nodes[i].id : i \in 1..Len(_nodes)})
           kw == CHOOSE k \in Keywords : k.body = None
       IN  /\ _nodes' = DictSet(_nodes, node_id,
                                MockNodeData(node_id, "fact", title, kw))
           /\ stores' = [stores EXCEPT ![w] =
                           [pc |-> "inserted", kind |-> "fact",
                            title |-> title, node_id |-> node_id]]
  /\ UNCHANGED <<sdk, _call_log, srv_nodes, srv_edges, searching, history,
                 last>>
  /\ UNCHANGED rest

\* store(), lines 112-113: the call-log entry, and the return of the id.
StoreReturn(w) ==
  /\ stores[w].pc = "inserted"
  /\ _call_log' = Append(_call_log,
                         <<"store", stores[w].kind, stores[w].title>>)
  /\ stores' = [stores EXCEPT ![w].pc = "returned"]
  /\ UNCHANGED <<sdk, _nodes, srv_nodes, srv_edges, searching, history, last>>
  /\ UNCHANGED rest

\* search(), lines 121-124: the call begins and the comprehension takes an
\* iterator of self._nodes.values(); the iterator notes the size of the dict.
SearchIter ==
  /\ searching.pc = "ready"
  /\ \E query \in ThreadQueries :
       searching' = [pc |-> "iterating", query |-> query,
                     limit |-> DefaultLimit, di_used |-> Len(_nodes),
                     di_pos |-> 0, matches |-> << >>, result |-> << >>,
                     stored_before |-> StoredIds]
  /\ UNCHANGED <<sdk, _nodes, _call_log, srv_nodes, srv_edges, stores,
                 history, last>>
  /\ UNCHANGED rest

\* search(), lines 122-126: one step of the iterator.  It raises RuntimeError
\* (dictionary changed size during iteration) if the dict has another size
\* than it had; it ends the loop after the last entry; otherwise the
\* comprehension tests the next node and keeps it if it matches.
SearchNext ==
  /\ searching.pc = "iterating"
  /\ searching' =
       IF Len(_nodes) /= searching.di_used
         THEN [searching EXCEPT !.pc = "raised"]
       ELSE IF searching.di_pos >= Len(_nodes)
         THEN [searching EXCEPT !.pc = "collected"]
       ELSE LET n == _nodes[searching.di_pos + 1]
            IN  [searching EXCEPT
                   !.di_pos = @ + 1,
                   !.matches =
                     IF Matches(n, lower(searching.query))
                       THEN Append(@, _MockSearchResult(MockScore,
                                                        _MockNode(n)))
                       ELSE @]
  /\ UNCHANGED <<sdk, _nodes, _call_log, srv_nodes, srv_edges, stores,
                 history, last>>
  /\ UNCHANGED rest

\* search(), line 127: return matches[:limit]
SearchReturn ==
  /\ searching.pc = "collected"
  /\ searching' = [searching EXCEPT
                     !.pc = "returned",
                     !.result = SliceTo(searching.matches, searching.limit)]
  /\ UNCHANGED <<sdk, _nodes, _call_log, srv_nodes, srv_edges, stores,
                 history, last>>
  /\ UNCHANGED rest

NextThreads ==
  \/ \E w \in Writers : StoreInsert(w)
  \/ \E w \in Writers : StoreReturn(w)
  \/ SearchIter
  \/ SearchNext
  \/ SearchReturn

SpecThreads == InitThreads /\ [][NextThreads]_vars

-----------------------------------------------------------------------------
(* Instances: a program makes MockCortex objects and calls them in any
   order. *)

\* self._nodes of object x
NodesOf(x) == heap[objs[x]._nodes]

\* self._call_log of object x
CallLogOf(x) == heap[objs[x]._call_log]

\* The ids given out so far, to whichever object.
AllIssued ==
  UNION {{heap[r][i].id : i \in 1..Len(heap[r])} :
           r \in {objs[x]._nodes : x \in 1..Len(objs)}}

InitInstances ==
  /\ sdk = "MockCortex"
  /\ Init

\* MockCortex()
Construct ==
  /\ Len(objs) < MaxInstances
  /\ LET new == MockCortex_init(heap)
     IN  /\ heap' = new.heap
         /\ objs' = Append(objs, new.self)
  /\ calls' = Append(calls, 0)
  /\ last' = Outcome("__init__", [self |-> Len(objs) + 1], None, "", "")
  /\ UNCHANGED <<sdk, _nodes, _call_log, srv_nodes, srv_edges, stores,
                 searching, _channel, _proc, subprocess, pc, history>>

\* x.store(kind, title, ...)
StoreOn(x) ==
  /\ Cardinality(AllIssued) < MaxStores
  /\ \E title \in ThreadTitles, kw \in Keywords :
       LET node_id == uuid4(AllIssued)
           self == objs[x]
       IN  /\ heap' =
                [r \in 1..Len(heap) |->
                   LET d == IF r = self._nodes
                              THEN DictSet(heap[r], node_id,
                                           MockNodeData(node_id, "fact",
                                                        title, kw))
                              ELSE heap[r]
                   IN  IF r = self._call_log
                         THEN Append(d, <<"store", "fact", title>>)
                         ELSE d]
           /\ last' = Outcome("store",
                              [self |-> x, kind |-> "fact", title |-> title,
                               kw |-> kw],
                              Some(node_id), "", "")
  /\ calls' = [calls EXCEPT ![x] = @ + 1]
  /\ UNCHANGED <<sdk, _nodes, _call_log, srv_nodes, srv_edges, stores,
                 searching, _channel, _proc, subprocess, pc, objs, history>>

\* x.search(query)
SearchOn(x) ==
  /\ \E query \in ThreadQueries :
       last' = Outcome("search",
                       [self |-> x, query |-> query, limit |-> DefaultLimit],
                       search(NodesOf(x), query, DefaultLimit), "", "")
  /\ UNCHANGED <<sdk, _nodes, _call_log, srv_nodes, srv_edges, stores,
                 searching, _channel, _proc, subprocess, pc, objs, heap,
                 calls, history>>

\* x.get_node(node_id)
GetNodeOn(x) ==
  /\ \E node_id \in {<<1>>} :
       LET r == get_node(NodesOf(x), node_id)
       IN  last' = Outcome("get_node", [self |-> x, node_id |-> node_id],
                           r.result, "", r.raised)
  /\ UNCHANGED <<sdk, _nodes, _call_log, srv_nodes, srv_edges, stores,
                 searching, _channel, _proc, subprocess, pc, objs, heap,
                 calls, history>>

\* x.assert_stored(kind, title) and x.assert_not_stored(kind, title)
AssertOn(x) ==
  /\ \E title \in ThreadTitles :
       last' = Outcome("assert_stored",
                       [self |-> x, kind |-> "fact", title |-> title],
                       [stored |-> assert_stored(CallLogOf(x), "fact", title),
                        not_stored |->
                          assert_not_stored(CallLogOf(x), "fact", title)],
                       "", "")
  /\ UNCHANGED <<sdk, _nodes, _call_log, srv_nodes, srv_edges, stores,
                 searching, _channel, _proc, subprocess, pc, objs, heap,
                 calls, history>>

\* A call of store on one of the objects.
Store == \E x \in 1..Len(objs) : StoreOn(x)

\* A call of search on one of the objects.
Search == \E x \in 1..Len(objs) : SearchOn(x)

\* A call of get_node on one of the objects.
GetNode == \E x \in 1..Len(objs) : GetNodeOn(x)

\* A call of the assertions on one of the objects.
Assertions == \E x \in 1..Len(objs) : AssertOn(x)

NextInstances ==
  \/ Construct
  \/ Store
  \/ Search
  \/ GetNode
  \/ Assertions

SpecInstances == InitInstances /\ [][NextInstances]_vars

-----------------------------------------------------------------------------
(* Lifecycle: a program makes one Cortex client, by Cortex(addr) or by
   Cortex.open(path), and closes it, directly or by leaving a with-block. *)

\* The variables of the calls on nodes and graphs.
datavars == <<sdk, _nodes, _call_log, srv_nodes, srv_edges, stores,
              searching, objs, heap, calls, history, last>>

InitLifecycle ==
  /\ sdk = "Cortex"
  /\ Init

\* Cortex(addr): __init__ makes the channel; there is no subprocess.
CortexInit ==
  /\ pc.at = "start"
  /\ _channel' = "open"
  /\ _proc' = None
  /\ pc' = [pc EXCEPT !.at = "client", !.how = "addr"]
  /\ UNCHANGED subprocess
  /\ UNCHANGED datavars

\* Cortex.open, line 48: _find_free_port binds port 0, reads the port the
\* system chose and releases it again.
OpenFindFreePort ==
  /\ pc.at = "start"
  /\ \E port \in Ports :
       pc' = [pc EXCEPT !.at = "popen", !.how = "open", !.port = port]
  /\ UNCHANGED <<_channel, _proc, subprocess>>
  /\ UNCHANGED datavars

\* Cortex.open, lines 49-53: subprocess.Popen starts "cortex serve" for the
\* port, or raises because there is no such binary.
OpenPopen ==
  /\ pc.at = "popen"
  /\ \/ /\ subprocess' = [started |-> TRUE, running |-> TRUE,
                           port |-> pc.port, terminate_calls |-> 0]
        /\ pc' = [pc EXCEPT !.at = "probing"]
     \/ /\ pc' = [pc EXCEPT !.at = "raised"]
        /\ UNCHANGED subprocess
  /\ UNCHANGED <<_channel, _proc>>
  /\ UNCHANGED datavars

\* The server process comes to listen on its port.
ServerListens ==
  /\ subprocess.running
  /\ pc.listener = "none"
  /\ pc' = [pc EXCEPT !.listener = "server"]
  /\ UNCHANGED <<_channel, _proc, subprocess>>
  /\ UNCHANGED datavars

\* The server process exits by itself (a database it cannot open, a port it
\* cannot bind).
ServerExits ==
  /\ subprocess.running
  /\ pc.at = "probing"
  /\ subprocess' = [subprocess EXCEPT !.running = FALSE]
  /\ pc' = [pc EXCEPT !.listener = IF @ = "server" THEN "none" ELSE @]
  /\ UNCHANGED <<_channel, _proc>>
  /\ UNCHANGED datavars

\* Another process of the machine takes the port that _find_free_port
\* released.
PortTaken ==
  /\ pc.at \in {"popen", "probing"}
  /\ pc.listener = "none"
  /\ pc' = [pc EXCEPT !.listener = "other"]
  /\ UNCHANGED <<_channel, _proc, subprocess>>
  /\ UNCHANGED datavars

\* Cortex.open, lines 57-64: one round of the loop.  The channel to the port
\* is ready within the timeout if something listens there, and the loop is
\* left; otherwise FutureTimeoutError, a sleep, and the next round, if any.
OpenProbe ==
  /\ pc.at = "probing"
  /\ pc.probes < ProbeCount
  /\ pc' = IF pc.listener /= "none"
             THEN [pc EXCEPT !.probes = @ + 1, !.observed = pc.listener,
                             !.at = "probed"]
             ELSE [pc EXCEPT !.probes = @ + 1,
                             !.at = IF pc.probes + 1 = ProbeCount
                                      THEN "probed" ELSE "probing"]
  /\ UNCHANGED <<_channel, _proc, subprocess>>
  /\ UNCHANGED datavars

\* Cortex.open, lines 66-68: instance = cls(target); instance._proc = proc;
\* return instance
OpenReturn ==
  /\ pc.at = "probed"
  /\ _channel' = "open"
  /\ _proc' = Some(subprocess.port)
  /\ pc' = [pc EXCEPT !.at = "client"]
  /\ UNCHANGED subprocess
  /\ UNCHANGED datavars

\* cx.close(), called by the program
Close ==
  /\ pc.at = "client"
  /\ pc.block /= "inside"
  /\ pc.closes < MaxCloses
  /\ LET c == Cortex_close(_proc, subprocess)
     IN  /\ _channel' = c._channel
         /\ _proc' = c._proc
         /\ subprocess' = c.subprocess
  /\ pc' = [pc EXCEPT !.closes = @ + 1]
  /\ UNCHANGED datavars

\* with cx: __enter__ returns self
Enter ==
  /\ pc.at = "client"
  /\ pc.block = "outside"
  /\ pc' = [pc EXCEPT !.block = "inside"]
  /\ UNCHANGED <<_channel, _proc, subprocess>>
  /\ UNCHANGED datavars

\* The with-block is left, at its end or by an exception: __exit__ calls
\* close() and returns None, so an exception goes on to the caller.
Exit ==
  /\ pc.at = "client"
  /\ pc.block = "inside"
  /\ LET c == Cortex_close(_proc, subprocess)
     IN  /\ _channel' = c._channel
         /\ _proc' = c._proc
         /\ subprocess' = c.subprocess
  /\ \E how \in {"left", "left by an exception"} :
       pc' = [pc EXCEPT !.block = how]
  /\ UNCHANGED datavars

NextLifecycle ==
  \/ CortexInit
  \/ OpenFindFreePort
  \/ OpenPopen
  \/ ServerListens
  \/ ServerExits
  \/ PortTaken
  \/ OpenProbe
  \/ OpenReturn
  \/ Close
  \/ Enter
  \/ Exit

SpecLifecycle == InitLifecycle /\ [][NextLifecycle]_vars

-----------------------------------------------------------------------------
(* Vocabulary of the properties *)

\* close() has been called on the client, by the program or by __exit__.
Closed == pc.closes > 0 \/ pc.block \in {"left", "left by an exception"}

\* One edge leads from a to b, walked in the given direction.
Hop(a, b, direction) ==
  \/ /\ direction \in {"outgoing", "both"}
     /\ [from_id |-> a, to_id |-> b] \in srv_edges
  \/ /\ direction \in {"incoming", "both"}
     /\ [from_id |-> b, to_id |-> a] \in srv_edges

\* Some path of at most d edges leads from a to b.
RECURSIVE WithinDistance(_, _, _, _)
WithinDistance(a, b, d, direction) ==
  \/ a = b
  \/ /\ d > 0
     /\ \E c \in GraphIds :
          Hop(a, c, direction) /\ WithinDistance(c, b, d - 1, direction)

\* A text with its capital letters replaced by the small ones.
IgnoreCase(s) ==
  [i \in 1..Len(s) |->
     IF s[i] = "A" THEN "a" ELSE IF s[i] = "B" THEN "b" ELSE s[i]]

\* t occurs in s as a run of consecutive characters.
Occurs(t, s) ==
  \E i \in 1..(Len(s) + 1) :
    /\ i + Len(t) - 1 <= Len(s)
    /\ \A k \in 1..Len(t) : s[i + k - 1] = t[k]

\* The query occurs in the node's title or body, ignoring letter case.
TextMatch(n, query) ==
  \/ Occurs(IgnoreCase(query), IgnoreCase(n.title))
  \/ Occurs(IgnoreCase(query), IgnoreCase(n.body))

\* The stored nodes the query matches.
Matching(query) == {i \in 1..Len(_nodes) : TextMatch(_nodes[i], query)}

\* store was called with this kind and this title.
WasStored(kind, title) ==
  \E i \in 1..Len(history) :
    history[i].args.kind = kind /\ history[i].args.title = title

\* The most recent store call that returned an id.
LastStored == history[Len(history)]

\* The rank of an id among the store calls, by the time of the call.
StoreOrder(id) == CHOOSE i \in 1..Len(history) : history[i].id = id

\* The store call that returned id.
StoreCall(id) == history[StoreOrder(id)]

\* Some result of a search is the node id, with a positive score.
Returns(results, id) ==
  \E i \in 1..Len(results) : results[i].node_id = id /\ results[i].score > 0

\* The node a store call asked for: its arguments, an omitted or empty body
\* read as the title, omitted tags as no tags, omitted metadata as no metadata.
Created(call) ==
  [id |-> call.id, kind |-> call.args.kind, title |-> call.args.title,
   body |-> IF call.args.kw.body = << >> THEN call.args.title
            ELSE call.args.kw.body,
   tags |-> IF call.args.kw.tags = None THEN << >> ELSE call.args.kw.tags[1],
   importance |-> call.args.kw.importance,
   metadata |-> IF call.args.kw.metadata = None THEN {}
                ELSE call.args.kw.metadata[1],
   source_agent |-> call.args.kw.source_agent]

NodeFields ==
  {"id", "kind", "title", "body", "tags", "importance", "metadata",
   "source_agent"}

IsBriefing(call) == call.op \in {"briefing", "briefing_full"}

\* The rendered text a briefing call returned.
BriefingText(call) == call.result.text

Max(a, b) == IF a >= b THEN a ELSE b

-----------------------------------------------------------------------------
(* Properties *)

\* C1, as stated: a search issued right after store(kind, title, ...) returned
\* node n, with n's title as the query and any limit >= 1 (the default
\* included), returns n with a score > 0, however many nodes were stored before.
C1_ReadYourWrites ==
  [][(/\ sdk = "MockCortex"
      /\ last.op = "store"
      /\ last'.op = "search"
      /\ last'.args.query = last.args.title
      /\ last'.args.limit >= 1)
     => Returns(last'.result, last.result[1])]_vars

\* C1, amended: the same search returns n with a score > 0 whenever fewer than
\* limit of the other stored nodes match the query.
C1_ReadYourWritesWithinLimit ==
  [][(/\ sdk = "MockCortex"
      /\ last.op = "store"
      /\ last'.op = "search"
      /\ last'.args.query = last.args.title
      /\ last'.args.limit >= 1
      /\ Cardinality({i \in 1..Len(_nodes) :
                        /\ _nodes[i].id /= last.result[1]
                        /\ TextMatch(_nodes[i], last'.args.query)})
           < last'.args.limit)
     => Returns(last'.result, last.result[1])]_vars

\* C1 witness: a search for the title of the node stored last, which another
\* stored node matches too, returned that node.
C1_Witness ==
  /\ sdk = "MockCortex"
  /\ last.op = "search"
  /\ Len(history) >= 2
  /\ last.args.query = LastStored.args.title
  /\ last.args.limit >= 1
  /\ \E i \in 1..Len(_nodes) :
       _nodes[i].id /= LastStored.id /\ TextMatch(_nodes[i], last.args.query)
  /\ Returns(last.result, LastStored.id)

\* C2: get_node(id), for an id store returned, returns a node whose id, kind,
\* title, body, tags, importance, metadata and source_agent are those of the
\* store call (the body being the title when it was omitted or empty).
C2_StoreGetRoundTrip ==
  (/\ last.op = "get_node"
   /\ last.args.node_id \in Issued
   /\ last.raised = "")
  => /\ last.result /= None
     /\ \A f \in NodeFields :
          /\ f \in DOMAIN last.result[1]
          /\ last.result[1][f] = Created(StoreCall(last.args.node_id))[f]

\* C3: get_node on a MockCortex returns None, and raises nothing, exactly for
\* the ids no store call returned (the empty string among them), and a node
\* for the others; Cortex.get_node returns None for NOT_FOUND, a node for an
\* answered call, and raises every other RPC error again.
C3_GetNodeNotFound ==
  last.op = "get_node" =>
    /\ sdk = "MockCortex" =>
         /\ last.raised = ""
         /\ (last.result = None) <=> (last.args.node_id \notin Issued)
         /\ last.result /= None => last.result[1].id = last.args.node_id
    /\ sdk = "Cortex" =>
         /\ last.rpc /= UNAVAILABLE =>
              ((last.rpc = NOT_FOUND) <=> (last.args.node_id \notin Issued))
         /\ last.rpc = NOT_FOUND => (last.result = None /\ last.raised = "")
         /\ last.rpc = "OK" => (last.result /= None /\ last.raised = "")
         /\ last.rpc \notin {"OK", NOT_FOUND} =>
              (last.result = None /\ last.raised = last.rpc)

\* C3 witness: with a node stored, get_node of the empty string returned None.
C3_Witness ==
  /\ sdk = "MockCortex"
  /\ last.op = "get_node"
  /\ Len(_nodes) >= 1
  /\ last.args.node_id = << >>
  /\ last.result = None
  /\ last.raised = ""

\* C4: the ids store returned are non-empty and pairwise different, and every
\* store call added a node of its own (none overwrote an earlier node).
C4_UniqueIds ==
  sdk = "MockCortex" =>
    /\ \A i \in 1..Len(history) : history[i].id /= << >>
    /\ \A i, j \in 1..Len(history) : i /= j => history[i].id /= history[j].id
    /\ Len(_nodes) = Len(history)
    /\ \A i \in 1..Len(history) : _nodes[i] = Created(history[i])

\* C4 witness: two store calls have returned.
C4_Witness ==
  /\ sdk = "MockCortex"
  /\ Len(history) >= 2
  /\ last.op = "store"

\* C5: a store call with an empty kind or an empty title is rejected as
\* InvalidArgument: it returns no id and leaves the stored nodes and the call
\* log as they were.  (A call that failed in transport never reached the
\* validation and is left out.)
C5_RejectsEmptyKindOrTitle ==
  [][(/\ last'.op = "store"
      /\ last'.rpc /= UNAVAILABLE
      /\ (last'.args.kind = "" \/ last'.args.title = << >>))
     => /\ last'.raised = INVALID_ARGUMENT
        /\ last'.result = None
        /\ _nodes' = _nodes
        /\ _call_log' = _call_log
        /\ srv_nodes' = srv_nodes]_vars

\* C6: every stored node has a non-empty body.
C6_BodyNeverEmpty ==
  /\ \A i \in 1..Len(_nodes) : _nodes[i].body /= << >>
  /\ \A i \in 1..Len(srv_nodes) : srv_nodes[i].body /= << >>

\* C7: of two consecutive briefing requests for the same agent_id and compact
\* flag, the second returns the text of the first and reports cached = true.
C7_BriefingCache ==
  [][(/\ sdk = "MockCortex"
      /\ IsBriefing(last)
      /\ IsBriefing(last')
      /\ last'.args = last.args)
     => /\ BriefingText(last') = BriefingText(last)
        /\ last'.op = "briefing_full" => last'.result.cached]_vars

\* C8: search_hybrid with anchor_ids omitted or empty returns what search
\* returns for the same query and limit: the same nodes, scores and order.
C8_HybridWithoutAnchorsIsSearch ==
  (/\ sdk = "MockCortex"
   /\ last.op = "search_hybrid"
   /\ last.args.anchor_ids \in {None, Some(<< >>)})
  => last.result = search(_nodes, last.args.query, last.args.limit)

\* C8 witness: a search_hybrid without anchors returned a node and left
\* another matching node out because of its limit.
C8_Witness ==
  /\ sdk = "MockCortex"
  /\ last.op = "search_hybrid"
  /\ last.args.anchor_ids = None
  /\ Len(last.result) = 1
  /\ Cardinality({i \in 1..Len(_nodes) :
                    TextMatch(_nodes[i], last.args.query)}) >= 2

\* C9: the results of a search are in non-increasing score order, and of two
\* results with the same score the node stored earlier comes first.
C9_SearchOrder ==
  (sdk = "MockCortex" /\ last.op \in {"search", "search_hybrid"}) =>
    \A i, j \in 1..Len(last.result) :
      i < j =>
        /\ last.result[i].score >= last.result[j].score
        /\ last.result[i].score = last.result[j].score =>
             StoreOrder(last.result[i].node_id)
               < StoreOrder(last.result[j].node_id)

\* C9 witness: a search returned two nodes.
C9_Witness ==
  /\ sdk = "MockCortex"
  /\ last.op = "search"
  /\ Len(last.result) >= 2

\* C10: search returns at most max(limit, 0) results, for every limit.
C10_SearchRespectsLimit ==
  (sdk = "MockCortex" /\ last.op = "search") =>
    Len(last.result) <= Max(last.args.limit, 0)

\* C11: with a limit of at least the number of matching nodes, search returns
\* one result for each stored node whose title or body contains the query
\* ignoring letter case, carrying that node's fields and the score 0.9, and
\* nothing else; with no matching node it returns the empty list.
C11_SearchMatchSet ==
  (/\ sdk = "MockCortex"
   /\ last.op = "search"
   /\ last.args.limit >= Cardinality(Matching(last.args.query)))
  => /\ \A n \in Matching(last.args.query) :
          Cardinality({i \in 1..Len(last.result) :
                         last.result[i].node_id = _nodes[n].id}) = 1
     /\ \A i \in 1..Len(last.result) :
          /\ last.result[i].score = MockScore
          /\ \E n \in Matching(last.args.query) :
               /\ last.result[i].node_id = _nodes[n].id
               /\ last.result[i].title = _nodes[n].title
               /\ last.result[i].kind = _nodes[n].kind
               /\ last.result[i].body = _nodes[n].body
     /\ Matching(last.args.query) = {} => last.result = << >>

\* C11 witness: a search returned the one node whose title contains the query
\* in another letter case, and not the other stored node.
C11_Witness ==
  /\ sdk = "MockCortex"
  /\ last.op = "search"
  /\ Len(_nodes) = 2
  /\ Len(last.result) = 1
  /\ last.args.query = <<"a">>
  /\ last.result[1].title = <<"A", "b">>
  /\ last.args.limit >= 1

\* C12: a search or search_hybrid whose query matches no stored node returns
\* the empty list, and a briefing for an agent that wrote no stored node
\* returns a non-empty text; none of them raises.
C12_EmptyResultsAreNotErrors ==
  sdk = "MockCortex" =>
    /\ (/\ last.op \in {"search", "search_hybrid"}
        /\ Matching(last.args.query) = {})
       => (last.result = << >> /\ last.raised = "")
    /\ (/\ IsBriefing(last)
        /\ \A i \in 1..Len(_nodes) :
             _nodes[i].source_agent /= last.args.agent_id)
       => (last.result.text /= "" /\ last.raised = "")

\* C12 witness: with a node stored, a search with a positive limit found
\* nothing.
C12_Witness ==
  /\ sdk = "MockCortex"
  /\ last.op = "search"
  /\ Len(_nodes) >= 1
  /\ last.args.limit >= 1
  /\ Matching(last.args.query) = {}
  /\ last.result = << >>

\* C15: assert_stored(kind, title) returns without raising exactly when store
\* was called with that kind and that title, assert_not_stored raises
\* AssertionError in exactly those cases, so one of the two raises for every
\* (kind, title); neither changes the nodes or the call log.
C15_CallLogAssertions ==
  sdk = "MockCortex" =>
    /\ last.op = "assert_stored" =>
         /\ (last.raised = "") <=> WasStored(last.args.kind, last.args.title)
         /\ last.raised \in {"", "AssertionError"}
    /\ last.op = "assert_not_stored" =>
         /\ (last.raised = "AssertionError")
              <=> WasStored(last.args.kind, last.args.title)
         /\ last.raised \in {"", "AssertionError"}
    /\ \A kind \in Kinds, title \in Titles :
         (assert_stored(_call_log, kind, title) = "")
           /= (assert_not_stored(_call_log, kind, title) = "")
    /\ last.op \in {"assert_stored", "assert_not_stored"} =>
         /\ _call_log = [i \in 1..Len(history) |->
                           <<"store", history[i].args.kind,
                             history[i].args.title>>]
         /\ _nodes = [i \in 1..Len(history) |-> Created(history[i])]

\* C15 witness: assert_stored raised for a title that was stored under another
\* kind.
C15_Witness ==
  /\ sdk = "MockCortex"
  /\ last.op = "assert_stored"
  /\ last.raised = "AssertionError"
  /\ \E i \in 1..Len(history) :
       /\ history[i].args.title = last.args.title
       /\ history[i].args.kind /= last.args.kind

\* C13: a traverse that returns has returned each node at most once and no
\* node farther than depth edges from the start node, so for depth 0 nothing
\* but the start node; this for every graph, the cyclic ones included.
C13_TraversalBound ==
  (last.op = "traverse" /\ last.raised = "") =>
    /\ \A i, j \in 1..Len(last.result.nodes) :
         i /= j => last.result.nodes[i].id /= last.result.nodes[j].id
    /\ \A i \in 1..Len(last.result.nodes) :
         WithinDistance(last.args.node_id, last.result.nodes[i].id,
                        last.args.depth, last.args.direction)
    /\ last.args.depth = 0 =>
         \A i \in 1..Len(last.result.nodes) :
           last.result.nodes[i].id = last.args.node_id

\* C13 witness: on a graph with a cycle through the start node, a traverse of
\* depth 1 returned the start node and a neighbour and left out a node two
\* edges away.
C13_Witness ==
  /\ sdk = "Cortex"
  /\ last.op = "traverse"
  /\ last.raised = ""
  /\ last.args.depth = 1
  /\ last.args.direction = "outgoing"
  /\ Len(last.result.nodes) = 2
  /\ WithinDistance(last.result.nodes[2].id, last.args.node_id, 2, "outgoing")
  /\ \E far \in GraphIds :
       /\ WithinDistance(last.args.node_id, far, 2, "outgoing")
       /\ \A i \in 1..Len(last.result.nodes) : last.result.nodes[i].id /= far

\* C14: a search interleaved with store calls of other threads does not
\* raise; once it has returned, each of its results has an id, a kind, a title
\* and a body, and each matching node whose store call had returned before
\* the search began is among the results.
C14_SearchConcurrentWithWrites ==
  /\ searching.pc /= "raised"
  /\ searching.pc = "returned" =>
       /\ \A i \in 1..Len(searching.result) :
            {"node_id", "kind", "title", "body"}
              \subseteq DOMAIN searching.result[i]
       /\ \A i \in 1..Len(_nodes) :
            (/\ _nodes[i].id \in searching.stored_before
             /\ TextMatch(_nodes[i], searching.query))
              => Returns(searching.result, _nodes[i].id)

\* C16: when Cortex.open has returned, one of its probes has seen the server
\* it started ready on the port, and until the client is closed its _proc is
\* that subprocess.
C16_OpenReturnsConnected ==
  (pc.how = "open" /\ pc.at = "client") =>
    /\ pc.observed = "server"
    /\ pc.probes <= ProbeCount
    /\ ~Closed => _proc = Some(subprocess.port)

\* C17: once close() has been called on a client of Cortex.open, directly or
\* by leaving a with-block, with or without an exception, its channel is
\* closed and its subprocess has had terminate() exactly once, however many
\* close() calls there were; a client of Cortex(addr) terminates nothing.
C17_ClientLifecycle ==
  /\ (pc.how = "open" /\ pc.at = "client" /\ Closed) =>
       /\ _channel = "closed"
       /\ subprocess.terminate_calls = 1
       /\ ~subprocess.running
  /\ (pc.how = "open" /\ ~Closed) => subprocess.terminate_calls = 0
  /\ pc.how = "addr" =>
       /\ subprocess.terminate_calls = 0
       /\ ~subprocess.started
       /\ Closed => _channel = "closed"

\* C17 witness: a client of Cortex.open left a with-block by an exception and
\* then had close() called twice more.
C17_Witness ==
  /\ pc.how = "open"
  /\ pc.at = "client"
  /\ pc.block = "left by an exception"
  /\ pc.closes = 2
  /\ subprocess.terminate_calls = 1

\* C18: a step in which an object had one more store call added exactly one
\* node and one call-log entry to that object and left the nodes it had as
\* they were; a step changed nothing in any object that had no store call in
\* it; so every object has as many nodes as store calls were made on it.
C18_FrameOfStore ==
  [][\A x \in 1..Len(objs) :
       /\ calls'[x] = calls[x] + 1 =>
            /\ Len(NodesOf(x)') = Len(NodesOf(x)) + 1
            /\ SubSeq(NodesOf(x)', 1, Len(NodesOf(x))) = NodesOf(x)
            /\ Len(CallLogOf(x)') = Len(CallLogOf(x)) + 1
       /\ calls'[x] = calls[x] =>
            /\ NodesOf(x)' = NodesOf(x)
            /\ CallLogOf(x)' = CallLogOf(x)
       /\ Len(NodesOf(x)') = calls'[x]]_vars

\* C18 witness: of two objects, the first had two store calls and the second
\* had none and is empty.
C18_Witness ==
  /\ Len(objs) = 2
  /\ calls = <<2, 0>>
  /\ last.op = "store"
  /\ Len(NodesOf(1)) = 2
  /\ NodesOf(2) = << >>
  /\ CallLogOf(2) = << >>

====
